---- MODULE Spec2Model ----
(***************************************************************************)
(* Model of the two command-line programs of the repository:               *)
(*   day-01  parse_elf_calories / part_one / part_two / main               *)
(*   day-02  Move::from_str / parse_outcome / round_score / required_move  *)
(*           / parse_round / main                                          *)
(* Texts are sequences of one-character strings.  A u32 is kept at its     *)
(* real width as two 16-bit halves [hi, lo] (value = hi * 2^16 + lo); a    *)
(* mathematical sum may have hi >= 2^16, which is how overflow is seen.    *)
(***************************************************************************)
EXTENDS Integers, Sequences, FiniteSets

\* ------------------------------------------------------------------ bounds
\* an input text is at most MaxPieces pieces long
MaxPieces == 4

\* a list of block sums handed to part_one and part_two has at most MaxList entries
MaxList == 4

VARIABLES
    input,        \* day-01: the text of input.txt
    pc,           \* where main is
    calories,     \* day-01: the block sums main holds
    part1,        \* day-01: the value of part_one
    part2,        \* day-01: the value of part_two
    stdout,       \* the values printed so far
    exit_code,    \* the exit status, -1 while the program runs
    contents,           \* day-02: the text of input.txt
    line_no,            \* day-02: the next non-blank line the iterator yields
    total_score,        \* day-02: the sum of the first pass so far
    total_score_part2,  \* day-02: the sum of the second pass so far
    opponent,     \* day-02 rules: the opponent's move
    me,           \* day-02 rules: the player's move
    desired,      \* day-02 rules: the desired outcome
    my_move,      \* day-02 rules: the value of required_move
    score         \* day-02 rules: the value of round_score

day01 == <<input, calories, part1, part2>>

day02 == <<contents, line_no, total_score, total_score_part2>>

rules == <<opponent, me, desired, my_move, score>>

vars == <<pc, stdout, exit_code, day01, day02, rules>>

\* ------------------------------------------------------------ u32 numbers
Half == 65536

W(h, l) == [hi |-> h, lo |-> l]

Zero == W(0, 0)

FitsU32(a) == a.hi < Half

\* mathematical addition (no width)
AddW(a, b) ==
    LET l == a.lo + b.lo
    IN  W(a.hi + b.hi + (l \div Half), l % Half)

Less(a, b) == a.hi < b.hi \/ (a.hi = b.hi /\ a.lo < b.lo)

Leq(a, b) == a = b \/ Less(a, b)

None == [some |-> FALSE]

Some(v) == [some |-> TRUE, val |-> v]

\* u32::checked_add
checked_add(a, b) ==
    LET s == AddW(a, b)
    IN  IF FitsU32(s) THEN Some(s) ELSE None

\* u32 addition with overflow checks off: the sum modulo 2^32
wrapping_add(a, b) ==
    LET s == AddW(a, b)
    IN  W(s.hi % Half, s.lo)

\* ------------------------------------------------------------------ texts
IsWhitespace(c) == c \in {" ", "\n", "\r", "\t"}

Digits == <<"0", "1", "2", "3", "4", "5", "6", "7", "8", "9">>

IsDigit(c) == \E i \in 1..10 : Digits[i] = c

DigitVal(c) == (CHOOSE i \in 1..10 : Digits[i] = c) - 1

\* str::replace("\r\n", "\n")
RECURSIVE replace_crlf(_)
replace_crlf(s) ==
    IF s = <<>> THEN <<>>
    ELSE IF Len(s) >= 2 /\ s[1] = "\r" /\ s[2] = "\n"
         THEN <<"\n">> \o replace_crlf(SubSeq(s, 3, Len(s)))
         ELSE <<s[1]>> \o replace_crlf(Tail(s))

\* str::trim_end
RECURSIVE trim_end(_)
trim_end(s) ==
    IF s # <<>> /\ IsWhitespace(s[Len(s)])
    THEN trim_end(SubSeq(s, 1, Len(s) - 1))
    ELSE s

\* str::trim_start
RECURSIVE trim_start(_)
trim_start(s) ==
    IF s # <<>> /\ IsWhitespace(s[1]) THEN trim_start(Tail(s)) ELSE s

\* str::trim
trim(s) == trim_start(trim_end(s))

\* str::split("\n\n"): the pieces between the non-overlapping matches found
\* left to right; the empty text gives one empty piece
RECURSIVE split_blank(_, _)
split_blank(s, cur) ==
    IF s = <<>> THEN <<cur>>
    ELSE IF Len(s) >= 2 /\ s[1] = "\n" /\ s[2] = "\n"
         THEN <<cur>> \o split_blank(SubSeq(s, 3, Len(s)), <<>>)
         ELSE split_blank(Tail(s), Append(cur, s[1]))

\* a line of str::lines with its "\n" removed loses one "\r" before it
strip_cr(l) ==
    IF l # <<>> /\ l[Len(l)] = "\r" THEN SubSeq(l, 1, Len(l) - 1) ELSE l

\* str::lines: ends of line are "\n" or "\r\n"; no empty last line
RECURSIVE lines(_, _)
lines(s, cur) ==
    IF s = <<>> THEN (IF cur = <<>> THEN <<>> ELSE <<cur>>)
    ELSE IF s[1] = "\n"
         THEN <<strip_cr(cur)>> \o lines(Tail(s), <<>>)
         ELSE lines(Tail(s), Append(cur, s[1]))

\* str::parse::<u32> on digits: the empty text, a non-digit and a value past
\* u32::MAX are errors (the optional leading "+" is not among the characters
\* of the input texts)
RECURSIVE parse_digits(_, _)
parse_digits(s, acc) ==
    IF s = <<>> THEN Some(acc)
    ELSE IF ~IsDigit(s[1]) THEN None
    ELSE LET l == acc.lo * 10 + DigitVal(s[1])
             n == W(acc.hi * 10 + (l \div Half), l % Half)
         IN  IF FitsU32(n) THEN parse_digits(Tail(s), n) ELSE None

parse_u32(s) == IF s = <<>> THEN None ELSE parse_digits(s, Zero)

\* the filter of line 19
NonBlank(l) == trim(l) # <<>>

RECURSIVE Filter(_, _)
Filter(ls, i) ==
    IF i > Len(ls) THEN <<>>
    ELSE IF NonBlank(ls[i]) THEN <<ls[i]>> \o Filter(ls, i + 1)
    ELSE Filter(ls, i + 1)

fold_add_wrapping(acc, n) == Some(wrapping_add(acc, n))

\* the addition of the fold of lines 27-30
fold_add(acc, n) == checked_add(acc, n)

\* try_fold over the parsed lines of one block
RECURSIVE block_fold(_, _, _)
block_fold(ls, i, acc) ==
    IF i > Len(ls) THEN Some(acc)
    ELSE LET n == parse_u32(trim(ls[i]))
         IN  IF ~n.some THEN None
             ELSE LET r == fold_add(acc, n.val)
                  IN  IF ~r.some THEN None ELSE block_fold(ls, i + 1, r.val)

block_sum(block) == block_fold(Filter(lines(block, <<>>), 1), 1, Zero)

\* collect::<Result<Vec<_>>>: the first error ends the collection
RECURSIVE collect(_, _, _)
collect(blocks, i, out) ==
    IF i > Len(blocks) THEN Some(out)
    ELSE LET r == block_sum(blocks[i])
         IN  IF ~r.some THEN None ELSE collect(blocks, i + 1, Append(out, r.val))

split_blocks(text) == split_blank(trim_end(replace_crlf(text)), <<>>)

parse_elf_calories(text) ==
    LET r == collect(split_blocks(text), 1, <<>>)
    IN  IF ~r.some THEN None
        ELSE IF r.val = <<>> THEN None
        ELSE r

\* ------------------------------------------------- day-01: the reductions
\* Iterator::max, unwrap_or(&0)
RECURSIVE max_fold(_, _, _)
max_fold(xs, i, best) ==
    IF i > Len(xs) THEN best
    ELSE max_fold(xs, i + 1, IF Leq(best, xs[i]) THEN xs[i] ELSE best)

part_one_skipping(xs) == IF xs = <<>> THEN Zero ELSE max_fold(xs, 3, xs[1])

part_one(xs) == IF xs = <<>> THEN Zero ELSE max_fold(xs, 2, xs[1])

\* sort_unstable_by(|a, b| b.cmp(a)): insertion into a descending list
RECURSIVE insert_desc(_, _)
insert_desc(sorted, x) ==
    IF sorted = <<>> THEN <<x>>
    ELSE IF Leq(sorted[1], x) THEN <<x>> \o sorted
    ELSE <<sorted[1]>> \o insert_desc(Tail(sorted), x)

RECURSIVE sort_desc(_)
sort_desc(xs) ==
    IF xs = <<>> THEN <<>>
    ELSE insert_desc(sort_desc(SubSeq(xs, 1, Len(xs) - 1)), xs[Len(xs)])

take(xs, n) == SubSeq(xs, 1, IF Len(xs) < n THEN Len(xs) ELSE n)

\* Iterator::sum over u32: `+`, which panics on overflow when the build has
\* overflow checks (debug profile) and wraps when it has not (release profile)
RECURSIVE sum_u32(_, _, _, _)
sum_u32(xs, i, acc, overflow_checks) ==
    IF i > Len(xs) THEN Some(acc)
    ELSE IF overflow_checks
         THEN LET r == checked_add(acc, xs[i])
              IN  IF ~r.some THEN None ELSE sum_u32(xs, i + 1, r.val, overflow_checks)
         ELSE sum_u32(xs, i + 1, wrapping_add(acc, xs[i]), overflow_checks)

\* None is the panic
part_two(xs, overflow_checks) == sum_u32(take(sort_desc(xs), 3), 1, Zero, overflow_checks)

\* ------------------------------------------------------- day-02: rules
Moves == {"Rock", "Paper", "Scissors"}

Outcomes == {"Lose", "Draw", "Win"}

\* impl FromStr for Move
move_from_str(tok) ==
    IF tok \in {<<"A">>, <<"X">>} THEN Some("Rock")
    ELSE IF tok \in {<<"B">>, <<"Y">>} THEN Some("Paper")
    ELSE IF tok \in {<<"C">>, <<"Z">>} THEN Some("Scissors")
    ELSE None

parse_outcome(tok) ==
    IF tok = <<"X">> THEN Some("Lose")
    ELSE IF tok = <<"Y">> THEN Some("Draw")
    ELSE IF tok = <<"Z">> THEN Some("Win")
    ELSE None

shape_score_from_zero(m) ==
    CASE m = "Rock" -> 0
      [] m = "Paper" -> 1
      [] m = "Scissors" -> 2

shape_score(m) ==
    CASE m = "Rock" -> 1
      [] m = "Paper" -> 2
      [] m = "Scissors" -> 3

round_score_swapped(opp, mine) ==
    LET outcome_score ==
            IF mine = opp THEN 3
            ELSE IF <<opp, mine>> \in {<<"Rock", "Scissors">>,
                                       <<"Scissors", "Paper">>,
                                       <<"Paper", "Rock">>} THEN 6
            ELSE 0
    IN  outcome_score + shape_score(mine)

round_score(opp, mine) ==
    LET outcome_score ==
            IF mine = opp THEN 3
            ELSE IF <<mine, opp>> \in {<<"Rock", "Scissors">>,
                                       <<"Scissors", "Paper">>,
                                       <<"Paper", "Rock">>} THEN 6
            ELSE 0
    IN  outcome_score + shape_score(mine)

required_move_swapped(opp, want) ==
    CASE want = "Draw" -> opp
      [] want = "Lose" ->
            (CASE opp = "Rock" -> "Paper"
               [] opp = "Paper" -> "Scissors"
               [] opp = "Scissors" -> "Rock")
      [] want = "Win" ->
            (CASE opp = "Rock" -> "Scissors"
               [] opp = "Paper" -> "Rock"
               [] opp = "Scissors" -> "Paper")

required_move(opp, want) ==
    CASE want = "Draw" -> opp
      [] want = "Win" ->
            (CASE opp = "Rock" -> "Paper"
               [] opp = "Paper" -> "Scissors"
               [] opp = "Scissors" -> "Rock")
      [] want = "Lose" ->
            (CASE opp = "Rock" -> "Scissors"
               [] opp = "Paper" -> "Rock"
               [] opp = "Scissors" -> "Paper")

\* str::split_whitespace: the non-empty runs of non-whitespace
RECURSIVE split_whitespace(_, _)
split_whitespace(s, cur) ==
    IF s = <<>> THEN (IF cur = <<>> THEN <<>> ELSE <<cur>>)
    ELSE IF IsWhitespace(s[1])
         THEN (IF cur = <<>> THEN <<>> ELSE <<cur>>) \o split_whitespace(Tail(s), <<>>)
         ELSE split_whitespace(Tail(s), Append(cur, s[1]))

\* None is the Err
parse_round(line) ==
    LET parts == split_whitespace(line, <<>>)
    IN  IF Len(parts) < 1 THEN None
        ELSE LET o == move_from_str(parts[1])
             IN  IF ~o.some THEN None
                 ELSE IF Len(parts) < 2 THEN None
                 ELSE LET m == move_from_str(parts[2])
                      IN  IF ~m.some THEN None ELSE Some(<<o.val, m.val>>)

\* the closure of the first pass; None is process::exit(1)
round_part1(line) ==
    LET r == parse_round(line)
    IN  IF ~r.some THEN None ELSE Some(round_score(r.val[1], r.val[2]))

\* the closure of the second pass; None is process::exit(1)
round_part2(line) ==
    LET parts == split_whitespace(line, <<>>)
    IN  IF Len(parts) < 1 THEN None
        ELSE LET o == move_from_str(parts[1])
             IN  IF ~o.some THEN None
                 ELSE IF Len(parts) < 2 THEN None
                 ELSE LET d == parse_outcome(parts[2])
                      IN  IF ~d.some THEN None
                          ELSE Some(round_score(o.val, required_move(o.val, d.val)))

\* contents.lines().filter(|line| !line.trim().is_empty())
rounds(text) == Filter(lines(text, <<>>), 1)

\* --------------------------------------------------------------- inputs
Pieces ==
    { <<"1">>, <<"2">>,
      <<"4", "2", "9", "4", "9", "6", "7", "2", "9", "5">>,
      <<"\n">>, <<"\n", "\n">>, <<"\r", "\n">>, <<" ">>, <<"x">> }

RoundPieces ==
    { <<"A">>, <<"B">>, <<"C">>, <<"X">>, <<"Y">>, <<"Z">>, <<" ">>, <<"\n">>,
      <<"A", " ", "Y", "\n">> }

RECURSIVE TextsOf(_, _)
TextsOf(P, n) ==
    IF n = 0 THEN {<<>>}
    ELSE LET prev == TextsOf(P, n - 1)
         IN  prev \cup {t \o p : t \in prev, p \in P}

Texts == TextsOf(Pieces, MaxPieces)

RoundTexts == TextsOf(RoundPieces, MaxPieces)

ListValues == {Zero, W(0, 1), W(0, 2), W(1, 0), W(32768, 0), W(65535, 65535)}

RECURSIVE ListsOf(_)
ListsOf(n) ==
    IF n = 0 THEN {<<>>}
    ELSE LET prev == ListsOf(n - 1)
         IN  prev \cup {Append(l, v) : l \in prev, v \in ListValues}

Lists == ListsOf(MaxList)

IdleDay01 ==
    /\ input = <<>>
    /\ calories = <<>>
    /\ part1 = Zero
    /\ part2 = Zero

IdleDay02 ==
    /\ contents = <<>>
    /\ line_no = 1
    /\ total_score = 0
    /\ total_score_part2 = 0

IdleRules ==
    /\ opponent = "Rock"
    /\ me = "Rock"
    /\ desired = "Draw"
    /\ my_move = "none"
    /\ score = 0

\* ---------------------------------------------------------- day-01: main
Init ==
    /\ input \in Texts
    /\ pc = "start"
    /\ calories = <<>>
    /\ part1 = Zero
    /\ part2 = Zero
    /\ stdout = <<>>
    /\ exit_code = -1
    /\ IdleDay02
    /\ IdleRules

\* line 57: an error leaves main with status 1
Parse ==
    /\ pc = "start"
    /\ LET r == parse_elf_calories(input)
       IN  IF r.some
           THEN /\ calories' = r.val
                /\ pc' = "parsed"
                /\ exit_code' = exit_code
           ELSE /\ calories' = calories
                /\ pc' = "done"
                /\ exit_code' = 1
    /\ UNCHANGED <<input, part1, part2, stdout, day02, rules>>

\* line 58
PartOne ==
    /\ pc = "parsed"
    /\ part1' = part_one(calories)
    /\ pc' = "one"
    /\ UNCHANGED <<input, calories, part2, stdout, exit_code, day02, rules>>

\* line 59: a panic leaves the program with status 101
PartTwo ==
    /\ pc = "one"
    /\ \E overflow_checks \in BOOLEAN :
         LET r == part_two(calories, overflow_checks)
         IN  IF r.some
             THEN /\ part2' = r.val
                  /\ pc' = "two"
                  /\ exit_code' = exit_code
             ELSE /\ part2' = part2
                  /\ pc' = "done"
                  /\ exit_code' = 101
    /\ UNCHANGED <<input, calories, part1, stdout, day02, rules>>

\* lines 61-63
PrintResults ==
    /\ pc = "two"
    /\ stdout' = <<part1, part2>>
    /\ exit_code' = 0
    /\ pc' = "done"
    /\ UNCHANGED <<day01, day02, rules>>

Next == Parse \/ PartOne \/ PartTwo \/ PrintResults

Spec == Init /\ [][Next]_vars

\* part_one and part_two on any list of block sums
InitReduce ==
    /\ input = <<>>
    /\ pc = "parsed"
    /\ calories \in Lists
    /\ part1 = Zero
    /\ part2 = Zero
    /\ stdout = <<>>
    /\ exit_code = -1
    /\ IdleDay02
    /\ IdleRules

NextReduce == PartOne \/ PartTwo \/ PrintResults

SpecReduce == InitReduce /\ [][NextReduce]_vars

\* ---------------------------------------------------------- day-02: main
InitRounds ==
    /\ contents \in RoundTexts
    /\ pc = "pass1"
    /\ line_no = 1
    /\ total_score = 0
    /\ total_score_part2 = 0
    /\ stdout = <<>>
    /\ exit_code = -1
    /\ IdleDay01
    /\ IdleRules

\* lines 99-109, one line of the iterator; a round scores at most 9, so the
\* u32 total stays far below 2^32 on the texts of the model
FirstPassRound ==
    /\ pc = "pass1"
    /\ line_no <= Len(rounds(contents))
    /\ LET r == round_part1(rounds(contents)[line_no])
       IN  IF r.some
           THEN /\ total_score' = total_score + r.val
                /\ line_no' = line_no + 1
                /\ UNCHANGED <<pc, exit_code>>
           ELSE /\ exit_code' = 1
                /\ pc' = "done"
                /\ UNCHANGED <<total_score, line_no>>
    /\ UNCHANGED <<contents, total_score_part2, stdout, day01, rules>>

\* the first iterator is exhausted
FirstPassEnd ==
    /\ pc = "pass1"
    /\ line_no > Len(rounds(contents))
    /\ pc' = "pass2"
    /\ line_no' = 1
    /\ UNCHANGED <<contents, total_score, total_score_part2, stdout, exit_code, day01, rules>>

\* lines 111-135, one line of the iterator
SecondPassRound ==
    /\ pc = "pass2"
    /\ line_no <= Len(rounds(contents))
    /\ LET r == round_part2(rounds(contents)[line_no])
       IN  IF r.some
           THEN /\ total_score_part2' = total_score_part2 + r.val
                /\ line_no' = line_no + 1
                /\ UNCHANGED <<pc, exit_code>>
           ELSE /\ exit_code' = 1
                /\ pc' = "done"
                /\ UNCHANGED <<total_score_part2, line_no>>
    /\ UNCHANGED <<contents, total_score, stdout, day01, rules>>

\* the second iterator is exhausted
SecondPassEnd ==
    /\ pc = "pass2"
    /\ line_no > Len(rounds(contents))
    /\ pc' = "print"
    /\ UNCHANGED <<day02, stdout, exit_code, day01, rules>>

\* lines 137-139
PrintTotals ==
    /\ pc = "print"
    /\ stdout' = <<total_score, total_score_part2>>
    /\ exit_code' = 0
    /\ pc' = "done"
    /\ UNCHANGED <<day01, day02, rules>>

NextRounds ==
    FirstPassRound \/ FirstPassEnd \/ SecondPassRound \/ SecondPassEnd \/ PrintTotals

SpecRounds == InitRounds /\ [][NextRounds]_vars

\* -------------------------------------- day-02: the rules on every argument
InitRules ==
    /\ opponent \in Moves
    /\ me \in Moves
    /\ desired \in Outcomes
    /\ my_move = "none"
    /\ score = 0
    /\ pc = "rules"
    /\ stdout = <<>>
    /\ exit_code = -1
    /\ IdleDay01
    /\ IdleDay02

\* line 107
ScoreRound ==
    /\ pc = "rules"
    /\ score' = round_score(opponent, me)
    /\ pc' = "scored"
    /\ UNCHANGED <<opponent, me, desired, my_move, stdout, exit_code, day01, day02>>

\* line 132
RequireMove ==
    /\ pc \in {"rules", "scored"}
    /\ my_move' = required_move(opponent, desired)
    /\ pc' = "required"
    /\ UNCHANGED <<opponent, me, desired, score, stdout, exit_code, day01, day02>>

\* line 133
ScoreRequired ==
    /\ pc = "required"
    /\ score' = round_score(opponent, my_move)
    /\ pc' = "realised"
    /\ UNCHANGED <<opponent, me, desired, my_move, stdout, exit_code, day01, day02>>

NextRules == ScoreRound \/ RequireMove \/ ScoreRequired

SpecRules == InitRules /\ [][NextRules]_vars

\* ===================================================== the claims, day-01
\* parse_elf_calories has returned
Parsed == pc # "start"

ParseFailed == pc = "done" /\ exit_code = 1

ParseOk == Parsed /\ ~ParseFailed

\* the text holds no block: it is empty or all newlines and whitespace
NoBlock == \A i \in 1..Len(input) : IsWhitespace(input[i])

InputLines == lines(input, <<>>)

LineValue(l) == parse_u32(trim(l))

AllValid == \A i \in 1..Len(InputLines) :
                NonBlank(InputLines[i]) => LineValue(InputLines[i]).some

\* the sums, without width, of the maximal runs of non-blank lines
RECURSIVE RunSums(_, _, _, _)
RunSums(ls, i, open, acc) ==
    IF i > Len(ls) THEN (IF open THEN <<acc>> ELSE <<>>)
    ELSE IF NonBlank(ls[i])
         THEN RunSums(ls, i + 1, TRUE, AddW(acc, LineValue(ls[i]).val))
         ELSE (IF open THEN <<acc>> ELSE <<>>) \o RunSums(ls, i + 1, FALSE, Zero)

BlockSums == RunSums(InputLines, 1, FALSE, Zero)

RECURSIVE Total(_)
Total(xs) == IF xs = <<>> THEN Zero ELSE AddW(xs[1], Total(Tail(xs)))

\* C1: a text with no block makes parse_elf_calories fail, and nothing is
\* printed.
C1_EmptyInputRejected ==
    (Parsed /\ NoBlock) => (ParseFailed /\ stdout = <<>>)

\* C4: when every non-blank line is an unsigned integer, the result is, in
\* order, one entry per maximal run of non-blank lines, each the sum of its
\* run (stated for the texts that have a block and whose sums fit a u32).
C4_OneEntryPerBlock ==
    (Parsed /\ AllValid /\ BlockSums # <<>>
        /\ \A i \in 1..Len(BlockSums) : FitsU32(BlockSums[i]))
    => (ParseOk /\ calories = BlockSums)

\* C5: a block whose sum passes 2^32 - 1 makes the whole parse fail; the
\* entries of a successful result are the sums themselves, none of them
\* reduced modulo 2^32.
C5_OverflowRejected ==
    ParseOk =>
        /\ AllValid
        /\ \A i \in 1..Len(BlockSums) : FitsU32(BlockSums[i])
        /\ \A i \in 1..Len(calories) : FitsU32(calories[i])
        /\ Total(calories) = Total(BlockSums)

C5_Witness ==
    /\ ParseFailed
    /\ AllValid
    /\ \E i \in 1..Len(BlockSums) : ~FitsU32(BlockSums[i])

\* the indices of the three largest entries (all of them when fewer)
TopThree(xs) ==
    LET n == Len(xs)
        k == IF n < 3 THEN n ELSE 3
    IN  CHOOSE S \in SUBSET (1..n) :
            /\ Cardinality(S) = k
            /\ \A i \in S, j \in (1..n) \ S : Leq(xs[j], xs[i])

RECURSIVE SumAt(_, _, _)
SumAt(xs, S, i) ==
    IF i > Len(xs) THEN Zero
    ELSE AddW(IF i \in S THEN xs[i] ELSE Zero, SumAt(xs, S, i + 1))

TopThreeSum(xs) == SumAt(xs, TopThree(xs), 1)

\* C6: part_two returns the sum of the three largest entries of any list.
C6_PartTwoTopThree ==
    (pc \in {"two", "done"} /\ ParseOk)
    => (exit_code # 101 /\ part2 = TopThreeSum(calories))

\* C7: on a non-empty list part_one returns an entry of the list that no
\* entry exceeds.
C7_PartOneIsMax ==
    (pc \in {"one", "two", "done"} /\ ParseOk /\ calories # <<>>)
    => /\ \E i \in 1..Len(calories) : calories[i] = part1
       /\ \A i \in 1..Len(calories) : Leq(calories[i], part1)

C7_Witness ==
    /\ pc = "one"
    /\ Len(calories) >= 3
    /\ calories[2] = part1
    /\ Less(calories[1], part1)
    /\ Less(calories[3], part1)

\* C10: when the three largest block sums add up to more than 2^32 - 1 the
\* run ends with a non-zero status, part_two yields no value and nothing is
\* printed.
C10_TopThreeOverflowRejected ==
    (ParseOk /\ ~FitsU32(TopThreeSum(calories)))
    => /\ pc # "two"
       /\ stdout = <<>>
       /\ (pc = "done" => exit_code # 0)

\* ===================================================== the claims, day-02
Beats == {<<"Rock", "Scissors">>, <<"Scissors", "Paper">>, <<"Paper", "Rock">>}

OutcomePoints(opp, mine) ==
    IF <<mine, opp>> \in Beats THEN 6 ELSE IF mine = opp THEN 3 ELSE 0

ShapePoints == [m \in Moves |-> IF m = "Rock" THEN 1 ELSE IF m = "Paper" THEN 2 ELSE 3]

DesiredPoints == [d \in Outcomes |-> IF d = "Lose" THEN 0 ELSE IF d = "Draw" THEN 3 ELSE 6]

\* C2: round_score is the outcome points of the player plus the shape points
\* of the player's move.
C2_RoundScore ==
    pc = "scored" => score = OutcomePoints(opponent, me) + ShapePoints[me]

C2_Witness ==
    pc = "scored" /\ opponent = "Scissors" /\ me = "Rock" /\ score = 7

\* C3 as written: opponent Rock, player Scissors scores 3 and opponent Paper,
\* player Rock scores 7.
C3_ExamplesAsWritten ==
    pc = "scored" =>
        /\ (opponent = "Rock" /\ me = "Scissors") => score = 3
        /\ (opponent = "Paper" /\ me = "Rock") => score = 7

\* C3 amended: opponent Rock, player Scissors scores 3 (loss, 0+3) and
\* opponent Paper, player Rock scores 1 (loss, 0+1).
C3_Examples ==
    pc = "scored" =>
        /\ (opponent = "Rock" /\ me = "Scissors") => score = 3
        /\ (opponent = "Paper" /\ me = "Rock") => score = 1

C3_Witness ==
    pc = "scored" /\ opponent = "Paper" /\ me = "Rock" /\ score = 1

\* C8: the move of required_move scores, against the opponent, the points of
\* the desired outcome plus its own shape points.
C8_RequiredMoveRealises ==
    pc = "realised" =>
        /\ my_move \in Moves
        /\ score = DesiredPoints[desired] + ShapePoints[my_move]

C8_Witness ==
    pc = "realised" /\ opponent = "Scissors" /\ desired = "Win" /\ my_move = "Rock"
        /\ score = 7

\* a line with both fields, each in the symbol set of its position
WellFormed(line) ==
    LET parts == split_whitespace(line, <<>>)
    IN  /\ Len(parts) >= 2
        /\ parts[1] \in {<<"A">>, <<"B">>, <<"C">>}
        /\ parts[2] \in {<<"X">>, <<"Y">>, <<"Z">>}

AllWellFormed ==
    \A i \in 1..Len(rounds(contents)) : WellFormed(rounds(contents)[i])

\* C9: a malformed non-blank line ends the run with a non-zero status and
\* nothing printed.
C9_MalformedRejected ==
    (pc = "done" /\ ~AllWellFormed) => (exit_code # 0 /\ stdout = <<>>)

====
